---- MODULE Spec2Model ----
(***************************************************************************)
(* A model of starlite/handlers.py: the route handler classes.  A handler  *)
(* node resolves guards, dependencies, response headers, the response      *)
(* class and the before/after request hooks by walking its ownership chain *)
(* (handler -> controller -> router -> app) and memoizes each result; a    *)
(* function is validated against protocol rules when it is registered on   *)
(* a handler.                                                              *)
(*                                                                         *)
(* Python values are tagged records, so that None, the _empty sentinel, an *)
(* empty list and an empty dict are four different values, as in Python.   *)
(* A dict is the sequence of its <<key, value>> items in insertion order.  *)
(***************************************************************************)
EXTENDS Integers, Sequences, FiniteSets, TLC

VARIABLES
    layers,                   \* the ownership tree: layer id -> its attributes; layer 1 is the handler node
    resolved_guards,          \* memo cells of the handler node
    resolved_dependencies,
    resolved_headers,
    resolved_response_class,
    resolved_before_request,
    resolved_after_request,
    signature_model,          \* None until the signature model has been generated
    handler,                  \* the fields a constructor and a registration set (http_method, status_code, ...)
    auth,                     \* the running authorize_connection call
    last,                     \* the most recent completed call: what it returned or raised
    first,                    \* per resolver, the value its first successful call returned
    coercion,                 \* the running to_response call
    tasks                     \* request tasks inside a resolver, each at one statement of its body

vars == <<layers, resolved_guards, resolved_dependencies, resolved_headers,
          resolved_response_class, resolved_before_request, resolved_after_request,
          signature_model, handler, auth, last, first, coercion, tasks>>

memo == <<resolved_guards, resolved_dependencies, resolved_headers,
          resolved_response_class, resolved_before_request, resolved_after_request>>

(***************************************************************************)
(* Bounds of the model.                                                    *)
(***************************************************************************)
MaxDepth == 3                 \* layers in an ownership chain, the handler included

GuardIds == {"g1", "g2"}
DependencyKeys == {"a", "b"}
Providers == {"p1", "p2"}
HeaderNames == {"h1", "h2"}
HeaderSpecs == {"v1", "v2"}

(***************************************************************************)
(* Python values.                                                          *)
(***************************************************************************)
None == [tag |-> "None"]
_empty == [tag |-> "_empty"]
List(s) == [tag |-> "list", items |-> s]
Dict(s) == [tag |-> "dict", items |-> s]
IntOf(n) == [tag |-> "int", value |-> n]
Ref(i) == [tag |-> "object", id |-> i]
Class(n) == [tag |-> "class", name |-> n]
Function(n) == [tag |-> "function", name |-> n]
BoundMethod(n) == [tag |-> "method", func |-> Function(n)]

\* bool(v): None, 0, the empty list and the empty dict are false
Truthy(v) ==
    CASE v.tag = "None" -> FALSE
      [] v.tag = "list" -> Len(v.items) > 0
      [] v.tag = "dict" -> Len(v.items) > 0
      [] v.tag = "int" -> v.value # 0
      [] OTHER -> TRUE

RECURSIVE Reverse(_)
Reverse(s) == IF s = <<>> THEN <<>> ELSE Reverse(Tail(s)) \o <<Head(s)>>

\* faulty variant of KeyIn: the membership test never succeeds
key_never_in(d, k) == FALSE
\* key in d
KeyIn(d, k) == \E i \in 1..Len(d) : d[i][1] = k

\* d[k], for k in d
Get(d, k) == LET i == CHOOSE j \in 1..Len(d) : d[j][1] = k IN d[i][2]

\* d[k] = v: a new key is appended, an existing key keeps its place
SetItem(d, k, v) ==
    IF \E i \in 1..Len(d) : d[i][1] = k
    THEN [i \in 1..Len(d) |-> IF d[i][1] = k THEN <<k, v>> ELSE d[i]]
    ELSE Append(d, <<k, v>>)

Keys(d) == {d[i][1] : i \in 1..Len(d)}

(***************************************************************************)
(* The ownership chain.                                                    *)
(***************************************************************************)
Self == 1

RECURSIVE walk_owners(_, _)
walk_owners(L, cur) ==
    IF ~Truthy(cur) THEN <<>>
    ELSE <<cur.id>> \o walk_owners(L, L[cur.id].owner)

\* the handler, then its owner, then the owner's owner, ... : a sequence of layer ids
ownership_layers(L) == walk_owners(L, Ref(Self))

\* faulty variant of IsUnresolved: a truth test, which also takes [], {} and None for unresolved
IsUnresolvedOrFalsy(cell) == cell = _empty \/ ~Truthy(cell)
\* the memo test of every resolver: the cell still holds the sentinel (is _empty)
IsUnresolved(cell) == cell = _empty

(***************************************************************************)
(* resolve_guards                                                          *)
(***************************************************************************)
RECURSIVE extend_guards(_, _, _)
extend_guards(L, chain, resolved) ==
    IF chain = <<>> THEN resolved
    ELSE LET layer == L[Head(chain)] IN
         extend_guards(L, Tail(chain),
                       IF Truthy(layer.guards) THEN resolved \o layer.guards.items
                       ELSE resolved)

\* the list resolve_guards stores when the memo cell is unresolved
collect_guards(L) == List(Reverse(extend_guards(L, ownership_layers(L), <<>>)))

\* the memo cell after a call of resolve_guards
guards_after(L, cell) == IF IsUnresolved(cell) THEN collect_guards(L) ELSE cell

Returned(op, value, walked, repeat) ==
    [op |-> op, status |-> "returned", value |-> value, walked |-> walked, repeat |-> repeat]

Raised(op, error) ==
    [op |-> op, status |-> "raised", error |-> error, walked |-> FALSE, repeat |-> FALSE]

NoCall == [op |-> "none", status |-> "none", walked |-> FALSE, repeat |-> FALSE]

\* what a call of resolve_guards does to the node
resolve_guards_call ==
    /\ resolved_guards' = guards_after(layers, resolved_guards)
    /\ last' = Returned("resolve_guards", resolved_guards', IsUnresolved(resolved_guards),
                        first.resolve_guards # _empty)
    /\ first' = IF first.resolve_guards = _empty
                THEN [first EXCEPT !.resolve_guards = resolved_guards']
                ELSE first

AuthIdle == [pc |-> "idle", i |-> 0, guards |-> <<>>, log |-> <<>>, error |-> None, raised |-> None]

\* a direct call of resolve_guards; calls are made one at a time
resolve_guards ==
    /\ auth.pc = "idle"
    /\ resolve_guards_call
    /\ UNCHANGED <<coercion, tasks, layers, resolved_dependencies, resolved_headers, resolved_response_class,
                   resolved_before_request, resolved_after_request, signature_model,
                   handler, auth>>

(***************************************************************************)
(* authorize_connection                                                    *)
(***************************************************************************)
Event(e, k, g) == [ev |-> e, k |-> k, guard |-> g]

NotAuthorized(k, g) == [tag |-> "exception", type |-> "NotAuthorizedException", k |-> k, guard |-> g]

\* faulty variant of after_raise: the error is swallowed and the loop goes on
after_raise_swallowed(a, err) ==
    [a EXCEPT !.pc = "loop", !.i = a.i + 1, !.raised = err,
              !.log = Append(a.log, Event("raised", a.i, a.guards[a.i]))]
\* a guard raised and authorize_connection catches nothing: the call ends with that error
after_raise(a, err) ==
    [a EXCEPT !.pc = "raised", !.error = err, !.raised = err,
              !.log = Append(a.log, Event("raised", a.i, a.guards[a.i]))]

\* for guard in self.resolve_guards():
authorize_begin ==
    /\ auth.pc = "idle"
    /\ resolve_guards_call
    /\ auth' = [AuthIdle EXCEPT !.pc = "loop", !.i = 1, !.guards = resolved_guards'.items]
    /\ UNCHANGED <<coercion, tasks, layers, resolved_dependencies, resolved_headers, resolved_response_class,
                   resolved_before_request, resolved_after_request, signature_model, handler>>

\* result = guard(connection, copy(self)): it returns a plain value, returns an awaitable, or raises
guard_call ==
    /\ auth.pc = "loop"
    /\ auth.i <= Len(auth.guards)
    /\ LET g == auth.guards[auth.i]
           invoked == [auth EXCEPT !.log = Append(auth.log, Event("invoked", auth.i, g))]
       IN \/ auth' = [invoked EXCEPT !.i = auth.i + 1,
                                     !.log = Append(invoked.log, Event("returned", auth.i, g))]
          \/ auth' = [invoked EXCEPT !.pc = "await",
                                     !.log = Append(invoked.log, Event("awaitable", auth.i, g))]
          \/ auth' = after_raise(invoked, NotAuthorized(auth.i, g))
    /\ UNCHANGED <<coercion, tasks, layers, memo, signature_model, handler, last, first>>

\* await result: the awaitable completes or raises
guard_await ==
    /\ auth.pc = "await"
    /\ LET g == auth.guards[auth.i]
       IN \/ auth' = [auth EXCEPT !.pc = "loop", !.i = auth.i + 1,
                                  !.log = Append(auth.log, Event("completed", auth.i, g))]
          \/ auth' = after_raise(auth, NotAuthorized(auth.i, g))
    /\ UNCHANGED <<coercion, tasks, layers, memo, signature_model, handler, last, first>>

\* the loop is exhausted: authorize_connection returns None
authorize_return ==
    /\ auth.pc = "loop"
    /\ auth.i > Len(auth.guards)
    /\ auth' = [auth EXCEPT !.pc = "done"]
    /\ last' = Returned("authorize_connection", None, FALSE, FALSE)
    /\ UNCHANGED <<coercion, tasks, layers, memo, signature_model, handler, first>>

\* the error leaves authorize_connection
authorize_raise ==
    /\ auth.pc = "raised"
    /\ auth' = [auth EXCEPT !.pc = "failed"]
    /\ last' = Raised("authorize_connection", auth.error)
    /\ UNCHANGED <<coercion, tasks, layers, memo, signature_model, handler, first>>

\* the caller is done with the call; the next connection may be authorized
authorize_end ==
    /\ auth.pc \in {"done", "failed"}
    /\ auth' = AuthIdle
    /\ UNCHANGED <<coercion, tasks, layers, memo, signature_model, handler, last, first>>

(***************************************************************************)
(* Ownership trees.                                                        *)
(***************************************************************************)
NoAttributes ==
    [owner |-> None, guards |-> None, dependencies |-> None, response_headers |-> None,
     response_class |-> None, before_request |-> None, after_request |-> None]

\* a chain of depth n: layer i is owned by layer i + 1, the root has no owner
Chain(n, attrs) ==
    [i \in 1..n |-> [attrs[i] EXCEPT !.owner = IF i < n THEN Ref(i + 1) ELSE None]]

\* the sequences over S without repetition
RECURSIVE Arrangements(_)
Arrangements(S) ==
    {<<>>} \cup UNION {{<<x>> \o s : s \in Arrangements(S \ {x})} : x \in S}

GuardChoices == {None} \cup {List(s) : s \in Arrangements(GuardIds)}

NoFirst ==
    [resolve_guards |-> _empty, resolve_dependencies |-> _empty,
     resolve_response_headers |-> _empty, resolve_response_class |-> _empty,
     resolve_before_request |-> _empty, resolve_after_request |-> _empty]

\* the fields of a handler before its constructor has run
NewHandler(kind) ==
    [kind |-> kind, phase |-> "new", args |-> None, http_method |-> None, status_code |-> None,
     media_type |-> None, fn |-> None]

\* a handler that is constructed and registered; the resolvers read none of these fields
RegisteredHandler == [NewHandler("http") EXCEPT !.phase = "registered"]

\* no to_response call is running
NoCoercion ==
    [pc |-> "idle", data |-> None, plugins |-> List(<<>>), engine |-> None, after_request |-> None,
     built |-> None, response |-> None, log |-> <<>>]

\* no request task is inside a resolver
NoTasks == [op |-> "none", of |-> <<>>]

\* the node as the constructors leave it (lines 89-91 and 252-255), given its tree
InitNode ==
    /\ resolved_guards = _empty
    /\ resolved_dependencies = _empty
    /\ resolved_headers = _empty
    /\ resolved_response_class = _empty
    /\ resolved_before_request = _empty
    /\ resolved_after_request = _empty
    /\ auth = AuthIdle
    /\ last = NoCall
    /\ first = NoFirst
    /\ coercion = NoCoercion
    /\ tasks = NoTasks

InitGuards ==
    /\ \E n \in 1..MaxDepth :
         \E gs \in [1..n -> GuardChoices] :
            layers = Chain(n, [i \in 1..n |-> [NoAttributes EXCEPT !.guards = gs[i]]])
    /\ signature_model = None
    /\ handler = RegisteredHandler
    /\ InitNode

NextGuards ==
    \/ resolve_guards
    \/ authorize_begin
    \/ guard_call
    \/ guard_await
    \/ authorize_return
    \/ authorize_raise
    \/ authorize_end

SpecGuards == InitGuards /\ [][NextGuards]_vars

(***************************************************************************)
(* Bookkeeping of a resolver call: r.cell is the memo cell after the call, *)
(* r.error the exception it raised (None when it returned r.cell).         *)
(***************************************************************************)
Outcome(cell, error) == [cell |-> cell, error |-> error]

last_of(op, before, r) ==
    IF r.error # None THEN Raised(op, r.error)
    ELSE Returned(op, r.cell, IsUnresolved(before), first[op] # _empty)

first_of(op, r) ==
    IF r.error = None /\ first[op] = _empty THEN [first EXCEPT ![op] = r.cell] ELSE first

(***************************************************************************)
(* resolve_dependencies and validate_dependency_is_unique                  *)
(***************************************************************************)
RuntimeError ==
    [tag |-> "exception", type |-> "RuntimeError"]

ImproperlyConfigured(key, dependency_key) ==
    [tag |-> "exception", type |-> "ImproperlyConfiguredException",
     key |-> key, dependency_key |-> dependency_key]

\* faulty variant of validate_dependency_is_unique: no check
validate_dependency_never_raises(dependencies, key, provider) == None
\* None, or the exception raised for the first item of dependencies whose provider equals provider
validate_dependency_is_unique(dependencies, key, provider) ==
    IF \E i \in 1..Len(dependencies) : provider = dependencies[i][2]
    THEN LET i == CHOOSE j \in 1..Len(dependencies) :
                    /\ provider = dependencies[j][2]
                    /\ \A m \in 1..(j - 1) : provider # dependencies[m][2]
         IN ImproperlyConfigured(key, dependencies[i][1])
    ELSE None

\* layer.dependencies or {}
items_or_empty(d) == IF Truthy(d) THEN d.items ELSE <<>>

\* the inner loop over one layer's items; acc = [error, deps]
RECURSIVE merge_dependency_items(_, _)
merge_dependency_items(items, acc) ==
    IF items = <<>> \/ acc.error # None THEN acc
    ELSE LET key == Head(items)[1]
             value == Head(items)[2]
         IN IF ~KeyIn(acc.deps, key)
            THEN LET e == validate_dependency_is_unique(acc.deps, key, value) IN
                 IF e # None THEN [acc EXCEPT !.error = e]
                 ELSE merge_dependency_items(Tail(items),
                                             [acc EXCEPT !.deps = SetItem(acc.deps, key, value)])
            ELSE merge_dependency_items(Tail(items), acc)

\* the outer loop over the ownership layers
RECURSIVE merge_dependencies(_, _, _)
merge_dependencies(L, chain, acc) ==
    IF chain = <<>> \/ acc.error # None THEN acc
    ELSE merge_dependencies(L, Tail(chain),
                            merge_dependency_items(items_or_empty(L[Head(chain)].dependencies), acc))

\* faulty variant of dependencies_outcome: the mapping merged so far is stored when the check raises
dependencies_outcome_storing_partial(L, model, cell) ==
    IF ~Truthy(model) THEN Outcome(cell, RuntimeError)
    ELSE IF IsUnresolved(cell)
         THEN LET m == merge_dependencies(L, ownership_layers(L), [error |-> None, deps |-> <<>>])
              IN Outcome(Dict(m.deps), m.error)
         ELSE Outcome(cell, None)
\* lines 120-130: the RuntimeError without a signature model, the memo, or the merged mapping,
\* which is stored only when no uniqueness check has raised
dependencies_outcome(L, model, cell) ==
    IF ~Truthy(model) THEN Outcome(cell, RuntimeError)
    ELSE IF IsUnresolved(cell)
         THEN LET m == merge_dependencies(L, ownership_layers(L), [error |-> None, deps |-> <<>>])
              IN IF m.error # None THEN Outcome(cell, m.error) ELSE Outcome(Dict(m.deps), None)
         ELSE Outcome(cell, None)

\* the record of a resolve_dependencies call also tells whether the signature model was set
WithModel(rec, b) == [f \in DOMAIN rec \cup {"model"} |-> IF f = "model" THEN b ELSE rec[f]]

resolve_dependencies ==
    /\ auth.pc = "idle"
    /\ LET r == dependencies_outcome(layers, signature_model, resolved_dependencies) IN
       /\ resolved_dependencies' = r.cell
       /\ last' = WithModel(last_of("resolve_dependencies", resolved_dependencies, r),
                            Truthy(signature_model))
       /\ first' = first_of("resolve_dependencies", r)
    /\ UNCHANGED <<coercion, tasks, layers, resolved_guards, resolved_headers, resolved_response_class,
                   resolved_before_request, resolved_after_request, signature_model,
                   handler, auth>>

\* the signature model is generated for the handler's function (by the code that registers the handler)
set_signature_model ==
    /\ auth.pc = "idle"
    /\ signature_model = None
    /\ signature_model' = Class("SignatureModel")
    /\ UNCHANGED <<coercion, tasks, layers, memo, handler, auth, last, first>>

\* ordered dicts over the keys Ks with values in Vs
DictChoices(Ks, Vs) ==
    UNION {{Dict([i \in 1..Len(ks) |-> <<ks[i], vs[i]>>]) : vs \in [1..Len(ks) -> Vs]}
           : ks \in Arrangements(Ks)}

DependencyChoices == {None} \cup DictChoices(DependencyKeys, Providers)

InitDeps ==
    /\ \E n \in 1..MaxDepth :
         \E ds \in [1..n -> DependencyChoices] :
            layers = Chain(n, [i \in 1..n |-> [NoAttributes EXCEPT !.dependencies = ds[i]]])
    /\ signature_model = None
    /\ handler = RegisteredHandler
    /\ InitNode

NextDeps ==
    \/ set_signature_model
    \/ resolve_dependencies

SpecDeps == InitDeps /\ [][NextDeps]_vars

(***************************************************************************)
(* resolve_response_headers                                                *)
(***************************************************************************)
\* faulty variant of merge_header_items: a farther layer overwrites a nearer one
RECURSIVE merge_header_items_overwriting(_, _)
merge_header_items_overwriting(items, headers) ==
    IF items = <<>> THEN headers
    ELSE merge_header_items_overwriting(Tail(items),
                                        SetItem(headers, Head(items)[1], Head(items)[2]))
\* the inner loop over one layer's items
RECURSIVE merge_header_items(_, _)
merge_header_items(items, headers) ==
    IF items = <<>> THEN headers
    ELSE LET key == Head(items)[1]
             value == Head(items)[2]
         IN merge_header_items(Tail(items),
                               IF ~KeyIn(headers, key) THEN SetItem(headers, key, value)
                               ELSE headers)

RECURSIVE merge_headers(_, _, _)
merge_headers(L, chain, headers) ==
    IF chain = <<>> THEN headers
    ELSE merge_headers(L, Tail(chain),
                       merge_header_items(items_or_empty(L[Head(chain)].response_headers), headers))

headers_outcome(L, cell) ==
    IF IsUnresolved(cell) THEN Outcome(Dict(merge_headers(L, ownership_layers(L), <<>>)), None)
    ELSE Outcome(cell, None)

resolve_response_headers ==
    /\ auth.pc = "idle"
    /\ LET r == headers_outcome(layers, resolved_headers) IN
       /\ resolved_headers' = r.cell
       /\ last' = last_of("resolve_response_headers", resolved_headers, r)
       /\ first' = first_of("resolve_response_headers", r)
    /\ UNCHANGED <<coercion, tasks, layers, resolved_guards, resolved_dependencies, resolved_response_class,
                   resolved_before_request, resolved_after_request, signature_model,
                   handler, auth>>

(***************************************************************************)
(* resolve_response_class                                                  *)
(***************************************************************************)
Response == Class("Response")

\* the cell is set to Response, then to the first layer's response_class that is not None
RECURSIVE first_response_class(_, _, _)
first_response_class(L, chain, default) ==
    IF chain = <<>> THEN default
    ELSE IF L[Head(chain)].response_class # None THEN L[Head(chain)].response_class
    ELSE first_response_class(L, Tail(chain), default)

response_class_outcome(L, cell) ==
    IF IsUnresolved(cell) THEN Outcome(first_response_class(L, ownership_layers(L), Response), None)
    ELSE Outcome(cell, None)

resolve_response_class ==
    /\ auth.pc = "idle"
    /\ LET r == response_class_outcome(layers, resolved_response_class) IN
       /\ resolved_response_class' = r.cell
       /\ last' = last_of("resolve_response_class", resolved_response_class, r)
       /\ first' = first_of("resolve_response_class", r)
    /\ UNCHANGED <<coercion, tasks, layers, resolved_guards, resolved_dependencies, resolved_headers,
                   resolved_before_request, resolved_after_request, signature_model,
                   handler, auth>>

(***************************************************************************)
(* resolve_before_request and resolve_after_request                        *)
(***************************************************************************)
ismethod(v) == v.tag = "method"

\* the cell after the loop: the first layer's hook that is true, or still _empty
RECURSIVE first_hook(_, _, _)
first_hook(L, chain, attr) ==
    IF chain = <<>> THEN _empty
    ELSE IF Truthy(L[Head(chain)][attr]) THEN L[Head(chain)][attr]
    ELSE first_hook(L, Tail(chain), attr)

\* faulty variant of normalize_hook: a bound method is stored as it is
normalize_hook_keep_bound(found) ==
    IF found = _empty THEN None ELSE found
\* after the loop: _empty becomes None, a bound method becomes its __func__
normalize_hook(found) ==
    IF found = _empty THEN None
    ELSE IF ismethod(found) THEN found.func
    ELSE found

hook_outcome(L, attr, cell) ==
    IF IsUnresolved(cell) THEN Outcome(normalize_hook(first_hook(L, ownership_layers(L), attr)), None)
    ELSE Outcome(cell, None)

resolve_before_request ==
    /\ auth.pc = "idle"
    /\ LET r == hook_outcome(layers, "before_request", resolved_before_request) IN
       /\ resolved_before_request' = r.cell
       /\ last' = last_of("resolve_before_request", resolved_before_request, r)
       /\ first' = first_of("resolve_before_request", r)
    /\ UNCHANGED <<coercion, tasks, layers, resolved_guards, resolved_dependencies, resolved_headers,
                   resolved_response_class, resolved_after_request, signature_model,
                   handler, auth>>

resolve_after_request ==
    /\ auth.pc = "idle"
    /\ LET r == hook_outcome(layers, "after_request", resolved_after_request) IN
       /\ resolved_after_request' = r.cell
       /\ last' = last_of("resolve_after_request", resolved_after_request, r)
       /\ first' = first_of("resolve_after_request", r)
    /\ UNCHANGED <<coercion, tasks, layers, resolved_guards, resolved_dependencies, resolved_headers,
                   resolved_response_class, resolved_before_request, signature_model,
                   handler, auth>>

HeaderChoices == {None} \cup DictChoices(HeaderNames, HeaderSpecs)

ResponseClassChoices == {None, Class("R1"), Class("R2")}

\* a hook is a plain function, or a bound method (a function read through a controller instance)
HookChoices == {None, Function("f1"), Function("f2"), BoundMethod("f2")}

InitHeaders ==
    /\ \E n \in 1..MaxDepth :
         \E hs \in [1..n -> HeaderChoices] :
            layers = Chain(n, [i \in 1..n |-> [NoAttributes EXCEPT !.response_headers = hs[i]]])
    /\ signature_model = None
    /\ handler = RegisteredHandler
    /\ InitNode

NextHeaders == resolve_response_headers

SpecHeaders == InitHeaders /\ [][NextHeaders]_vars

\* trees in which the layers differ in one of response_class, before_request, after_request
InitHooks ==
    /\ \E n \in 1..MaxDepth :
         \/ \E cs \in [1..n -> ResponseClassChoices] :
               layers = Chain(n, [i \in 1..n |-> [NoAttributes EXCEPT !.response_class = cs[i]]])
         \/ \E bs \in [1..n -> HookChoices] :
               layers = Chain(n, [i \in 1..n |-> [NoAttributes EXCEPT !.before_request = bs[i]]])
         \/ \E as \in [1..n -> HookChoices] :
               layers = Chain(n, [i \in 1..n |-> [NoAttributes EXCEPT !.after_request = as[i]]])
    /\ signature_model = None
    /\ handler = RegisteredHandler
    /\ InitNode

NextHooks ==
    \/ resolve_response_class
    \/ resolve_before_request
    \/ resolve_after_request

SpecHooks == InitHooks /\ [][NextHooks]_vars

(***************************************************************************)
(* Constructing an HTTP handler: HTTPRouteHandler.__init__                 *)
(***************************************************************************)
MaxMethods == 2               \* length of a list of HTTP methods (besides lists of one method)

HTTP_200_OK == 200
HTTP_201_CREATED == 201
HTTP_204_NO_CONTENT == 204

MethodNames == {"GET", "POST", "PUT", "PATCH", "DELETE"}

\* a member of the str-valued enum HttpMethod, and a plain string
HttpMethod(n) == [tag |-> "HttpMethod", value |-> n]
Str(n) == [tag |-> "str", value |-> n]

isinstance_list(v) == v.tag = "list"

\* ==  between method values: a member of a str-valued enum equals the string that is its value
method_eq(a, b) == a.tag \in {"str", "HttpMethod"} /\ b.tag \in {"str", "HttpMethod"} /\ a.value = b.value

\* v.upper(): a plain string; the admitted method names are upper case already
upper(v) == Str(v.value)

\* faulty variant of http_method_of: a list of one stays a list
http_method_uncollapsed(given) ==
    IF isinstance_list(given) THEN List([i \in 1..Len(given.items) |-> upper(given.items[i])])
    ELSE IF given.tag = "HttpMethod" THEN Str(given.value) ELSE given
\* lines 217-222: a list is upper-cased, a list of one collapses to the element that was given
http_method_of(given) ==
    IF isinstance_list(given)
    THEN IF Len(given.items) = 1 THEN given.items[1]
         ELSE List([i \in 1..Len(given.items) |-> upper(given.items[i])])
    ELSE IF given.tag = "HttpMethod" THEN Str(given.value) ELSE given

\* lines 223-232
status_code_of(status_code, method) ==
    IF Truthy(status_code) THEN status_code
    ELSE IF isinstance_list(method) THEN IntOf(HTTP_200_OK)
    ELSE IF method_eq(method, HttpMethod("POST")) THEN IntOf(HTTP_201_CREATED)
    ELSE IF method_eq(method, HttpMethod("DELETE")) THEN IntOf(HTTP_204_NO_CONTENT)
    ELSE IntOf(HTTP_200_OK)

ConfigurationError(reason) ==
    [tag |-> "exception", type |-> "ImproperlyConfiguredException", reason |-> reason]

ValidationError(reason) ==
    [tag |-> "exception", type |-> "ValidationException", reason |-> reason]

Arguments(http_method, status_code, media_type) ==
    [http_method |-> http_method, status_code |-> status_code, media_type |-> media_type]

http_init(http_method, status_code, media_type) ==
    /\ handler.kind = "http"
    /\ handler.phase = "new"
    /\ IF ~Truthy(http_method)
       THEN /\ handler' = [handler EXCEPT !.phase = "failed",
                                          !.args = Arguments(http_method, status_code, media_type)]
            /\ last' = Raised("__init__", ConfigurationError("An http_method kwarg is required"))
       ELSE /\ handler' = [handler EXCEPT
                              !.phase = "constructed",
                              !.args = Arguments(http_method, status_code, media_type),
                              !.http_method = http_method_of(http_method),
                              !.status_code = status_code_of(status_code, http_method_of(http_method)),
                              !.media_type = media_type]
            /\ last' = Returned("__init__", None, FALSE, FALSE)
    /\ UNCHANGED <<coercion, tasks, layers, memo, signature_model, auth, first>>

\* BaseRouteHandler.__init__, which is all a WebsocketRouteHandler has
websocket_init ==
    /\ handler.kind = "websocket"
    /\ handler.phase = "new"
    /\ handler' = [handler EXCEPT !.phase = "constructed"]
    /\ last' = Returned("__init__", None, FALSE, FALSE)
    /\ UNCHANGED <<coercion, tasks, layers, memo, signature_model, auth, first>>

(***************************************************************************)
(* Registering a function: __call__ and validate_handler_function          *)
(***************************************************************************)
Signature(return_annotation, parameters) ==
    [tag |-> "function", return_annotation |-> return_annotation, parameters |-> parameters]

SignatureEmpty == [tag |-> "Signature.empty"]

\* an annotation that is no class, such as Optional[Redirect]
Generic(n) == [tag |-> "generic", name |-> n]

isclass(v) == v.tag = "class"

\* a parameterized alias such as list[int] passes isclass, and issubclass raises TypeError for it
issubclass_raises_TypeError(c) == c.name = "list[int]"

issubclass(c, base) ==
    \/ c.name = base
    \/ base = "Redirect" /\ c.name = "RedirectSubclass"

REDIRECT_STATUS_CODES == {IntOf(301), IntOf(302), IntOf(303), IntOf(307), IntOf(308)}

MediaTypes == {"JSON", "HTML", "TEXT"}

\* self.http_methods
http_methods(h) == IF isinstance_list(h.http_method) THEN h.http_method.items ELSE <<h.http_method>>

\* "GET" in self.http_methods
in_methods(n, h) == \E i \in 1..Len(http_methods(h)) : method_eq(Str(n), http_methods(h)[i])

\* lines 353-361: the exception raised inside "with suppress(TypeError)", or None
redirect_check(h, return_annotation) ==
    IF isclass(return_annotation) /\ ~issubclass_raises_TypeError(return_annotation)
       /\ issubclass(return_annotation, "Redirect") /\ h.status_code \notin REDIRECT_STATUS_CODES
    THEN ValidationError("Redirect responses should have one of the redirect status codes")
    ELSE None

\* lines 360-361: a File result with media type JSON or HTML is served as TEXT
media_type_after(h, return_annotation) ==
    IF isclass(return_annotation) /\ ~issubclass_raises_TypeError(return_annotation)
       /\ issubclass(return_annotation, "File") /\ h.media_type \in {"JSON", "HTML"}
    THEN "TEXT"
    ELSE h.media_type

\* faulty variant of http_validate: data is accepted with GET
http_validate_ignoring_data(h, fn) ==
    IF fn.return_annotation = SignatureEmpty
    THEN ValidationError("A return value of a route handler function should be type annotated")
    ELSE IF redirect_check(h, fn.return_annotation) # None
    THEN redirect_check(h, fn.return_annotation)
    ELSE IF "socket" \in fn.parameters
    THEN ConfigurationError("The 'socket' kwarg is not supported with http handlers")
    ELSE None
\* HTTPRouteHandler.validate_handler_function: the exception it raises, or None
\* (self.fn was set by __call__ and a function is true, so the base class check passes)
http_validate(h, fn) ==
    IF fn.return_annotation = SignatureEmpty
    THEN ValidationError("A return value of a route handler function should be type annotated")
    ELSE IF redirect_check(h, fn.return_annotation) # None
    THEN redirect_check(h, fn.return_annotation)
    ELSE IF "socket" \in fn.parameters
    THEN ConfigurationError("The 'socket' kwarg is not supported with http handlers")
    ELSE IF "data" \in fn.parameters /\ in_methods("GET", h)
    THEN ConfigurationError("'data' kwarg is unsupported for 'GET' request handlers")
    ELSE None

\* HTTPRouteHandler.__call__
http_call(fn) ==
    /\ handler.kind = "http"
    /\ handler.phase = "constructed"
    /\ LET e == http_validate(handler, fn)
           \* the media type is coerced before the parameter checks, also when one of them raises
           coerced == IF fn.return_annotation # SignatureEmpty
                         /\ redirect_check(handler, fn.return_annotation) = None
                      THEN media_type_after(handler, fn.return_annotation)
                      ELSE handler.media_type
       IN /\ handler' = [handler EXCEPT !.fn = fn, !.media_type = coerced,
                                        !.phase = IF e = None THEN "registered" ELSE "rejected"]
          /\ last' = IF e = None THEN Returned("__call__", Ref(Self), FALSE, FALSE)
                     ELSE Raised("__call__", e)
    /\ UNCHANGED <<coercion, tasks, layers, memo, signature_model, auth, first>>

\* faulty variant of websocket_validate: request is accepted
websocket_validate_allowing_request(fn) ==
    IF fn.return_annotation # None
    THEN ConfigurationError("Websocket handler functions should return 'None'")
    ELSE IF "socket" \notin fn.parameters
    THEN ConfigurationError("Websocket handlers must set a 'socket' kwarg")
    ELSE IF "data" \in fn.parameters
    THEN ConfigurationError("The 'data' kwarg is not supported with websocket handlers")
    ELSE None
\* WebsocketRouteHandler.validate_handler_function: the exception it raises, or None
websocket_validate(fn) ==
    IF fn.return_annotation # None
    THEN ConfigurationError("Websocket handler functions should return 'None'")
    ELSE IF "socket" \notin fn.parameters
    THEN ConfigurationError("Websocket handlers must set a 'socket' kwarg")
    ELSE IF "request" \in fn.parameters
    THEN ConfigurationError("The 'request' kwarg is not supported with websocket handlers")
    ELSE IF "data" \in fn.parameters
    THEN ConfigurationError("The 'data' kwarg is not supported with websocket handlers")
    ELSE None

\* WebsocketRouteHandler.__call__
websocket_call(fn) ==
    /\ handler.kind = "websocket"
    /\ handler.phase = "constructed"
    /\ LET e == websocket_validate(fn)
       IN /\ handler' = [handler EXCEPT !.fn = fn,
                                        !.phase = IF e = None THEN "registered" ELSE "rejected"]
          /\ last' = IF e = None THEN Returned("__call__", Ref(Self), FALSE, FALSE)
                     ELSE Raised("__call__", e)
    /\ UNCHANGED <<coercion, tasks, layers, memo, signature_model, auth, first>>

\* the http_method arguments: a member or a string, a list of one of either, a longer list, None, []
RECURSIVE ArrangementsUpTo(_, _)
ArrangementsUpTo(S, n) ==
    IF n = 0 THEN {<<>>}
    ELSE {<<>>} \cup UNION {{<<x>> \o s : s \in ArrangementsUpTo(S \ {x}, n - 1)} : x \in S}

MethodScalars == {HttpMethod(n) : n \in MethodNames} \cup {Str(n) : n \in MethodNames}

MethodArguments ==
    MethodScalars
    \cup {List(<<x>>) : x \in MethodScalars}
    \cup {List(s) : s \in ArrangementsUpTo({HttpMethod(n) : n \in MethodNames}, MaxMethods)}
    \cup {None}

StatusCodeArguments == {None, IntOf(0), IntOf(200), IntOf(302)}

ReturnAnnotations ==
    {SignatureEmpty, None, Class("Redirect"), Class("RedirectSubclass"), Class("File"),
     Class("dict"), Class("list[int]"), Generic("Optional[Redirect]")}

ParameterNames == {"socket", "data", "request", "other"}

Functions == {Signature(a, ps) : a \in ReturnAnnotations, ps \in SUBSET ParameterNames}

InitReg ==
    /\ layers = Chain(1, <<NoAttributes>>)
    /\ signature_model = None
    /\ handler \in {NewHandler("http"), NewHandler("websocket")}
    /\ InitNode

NextReg ==
    \/ \E m \in MethodArguments, c \in StatusCodeArguments, t \in MediaTypes : http_init(m, c, t)
    \/ \E fn \in Functions : http_call(fn)
    \/ websocket_init
    \/ \E fn \in Functions : websocket_call(fn)

SpecReg == InitReg /\ [][NextReg]_vars

(***************************************************************************)
(* Trees in which every layer sets all six attributes at once, each layer  *)
(* taking one of four attribute sets: nothing set, empty collections, and  *)
(* two sets of values.  All six resolvers run on them.                     *)
(***************************************************************************)
LayerProfiles ==
    { NoAttributes,
      [NoAttributes EXCEPT !.guards = List(<<>>), !.dependencies = Dict(<<>>),
                           !.response_headers = Dict(<<>>)],
      [NoAttributes EXCEPT !.guards = List(<<"g1", "g2">>),
                           !.dependencies = Dict(<<(<<"a", "p1">>)>>),
                           !.response_headers = Dict(<<(<<"h1", "v1">>)>>),
                           !.response_class = Class("R1"),
                           !.before_request = Function("f1"),
                           !.after_request = BoundMethod("f2")],
      [NoAttributes EXCEPT !.guards = List(<<"g2">>),
                           !.dependencies = Dict(<<(<<"a", "p2">>), (<<"b", "p1">>)>>),
                           !.response_headers = Dict(<<(<<"h2", "v2">>), (<<"h1", "v2">>)>>),
                           !.response_class = Class("R2"),
                           !.before_request = BoundMethod("f2"),
                           !.after_request = Function("f1")] }

InitMemo ==
    /\ \E n \in 1..MaxDepth :
         \E ps \in [1..n -> LayerProfiles] : layers = Chain(n, ps)
    /\ signature_model = None
    /\ handler = RegisteredHandler
    /\ InitNode

NextMemo ==
    \/ set_signature_model
    \/ resolve_guards
    \/ resolve_dependencies
    \/ resolve_response_headers
    \/ resolve_response_class
    \/ resolve_before_request
    \/ resolve_after_request

SpecMemo == InitMemo /\ [][NextMemo]_vars

(***************************************************************************)
(* to_response (lines 367-420): a handler's return value becomes a         *)
(* response.  A response is the record of the class that was called and of *)
(* the keyword arguments it was called with; NotPassed stands for an       *)
(* argument the call leaves out.  The background tasks (line 410) are not  *)
(* modelled.                                                               *)
(***************************************************************************)
NotPassed == [tag |-> "not passed"]

Awaitable(v) == [tag |-> "awaitable", value |-> v]

isawaitable(v) == v.tag = "awaitable"

\* the return values to_response tells apart
Redirect(path) == [tag |-> "Redirect", path |-> path]

File(path, filename) == [tag |-> "File", path |-> path, filename |-> filename]

Stream(iterator) == [tag |-> "Stream", iterator |-> iterator]

Template(name, context) == [tag |-> "Template", name |-> name, context |-> context]

\* an instance of a class some plugin supports
Model(id) == [tag |-> "Model", id |-> id]

\* a value no plugin supports
Plain(v) == [tag |-> "Plain", value |-> v]

ResponseOf(class, status_code, headers, media_type, body) ==
    [tag |-> "response", class |-> class, status_code |-> status_code, headers |-> headers,
     media_type |-> media_type, body |-> body]

\* isinstance(data, (StarletteResponse, StarliteType))
is_response_or_starlite_type(data) ==
    data.tag \in {"response", "Redirect", "File", "Stream", "Template"}

\* self.media_type.value if isinstance(self.media_type, Enum) else self.media_type
media_type_value(m) ==
    CASE m = "JSON" -> Str("application/json")
      [] m = "HTML" -> Str("text/html")
      [] m = "TEXT" -> Str("text/plain")
      [] OTHER -> Str(m)

\* v.value of a ResponseHeader
header_value(v) == Str(v)

\* {k: v.value for k, v in self.resolve_response_headers().items()}
header_values(resolved) ==
    Dict([i \in 1..Len(resolved.items) |->
            <<resolved.items[i][1], header_value(resolved.items[i][2])>>])

\* plugin.to_dict(datum)
to_dict(datum) == [tag |-> "dict of", id |-> datum.id]

\* the first plugin supporting the value, or the first element of a non-empty list; None without
\* one.  The plugins of this model support exactly the Model instances
get_plugin_for_value(value, plugins) ==
    IF ~Truthy(plugins) THEN None
    ELSE LET probe == IF isinstance_list(value) /\ Truthy(value) THEN value.items[1] ELSE value
         IN IF probe.tag = "Model" THEN Ref(plugins.items[1]) ELSE None

\* lines 401-405: the data converted by the plugin that was found, element by element for a list
plugin_converted(data, plugin) ==
    IF ~Truthy(plugin) THEN data
    ELSE IF isinstance_list(data)
         THEN List([i \in 1..Len(data.items) |-> to_dict(data.items[i])])
         ELSE to_dict(data)

NameError(name) == [tag |-> "exception", type |-> "NameError", name |-> name]

InternalServerException(detail) ==
    [tag |-> "exception", type |-> "InternalServerException", detail |-> detail]

Built(response) == [response |-> response, error |-> None]

Raise(error) == [response |-> None, error |-> error]

\* the names line 387 can read: the parameters and locals of to_response, and the module's names
NamesInScope ==
    {"self", "data", "plugins", "after_request", "media_type", "headers", "response",
     "template_engine", "plugin", "response_class",
     "suppress", "copy", "Enum", "Signature", "isawaitable", "isclass", "ismethod", "cast",
     "validate_arguments", "AnyCallable", "BackgroundTask", "BackgroundTasks", "HTTPConnection",
     "FileResponse", "RedirectResponse", "StarletteResponse", "StreamingResponse",
     "HTTP_200_OK", "HTTP_201_CREATED", "HTTP_204_NO_CONTENT", "REDIRECT_STATUS_CODES",
     "Controller", "File", "Redirect", "StarliteType", "Stream", "Template", "HttpMethod",
     "MediaType", "HTTPException", "ImproperlyConfiguredException", "InternalServerException",
     "ValidationException", "PluginProtocol", "get_plugin_for_value", "Provide", "Response",
     "TemplateResponse", "SignatureModel", "normalize_path", "_empty", "BaseRouteHandler",
     "HTTPRouteHandler", "WebsocketRouteHandler", "ASGIRouteHandler"}

\* lines 386-397: the branch of a Template value; engine is the application's template engine
template_response(h, data, headers, engine) ==
    IF "request" \notin NamesInScope THEN Raise(NameError("request"))
    ELSE IF Truthy(engine)
         THEN Built(ResponseOf("TemplateResponse", h.status_code, headers, NotPassed,
                               [template_name |-> data.name, context |-> data.context,
                                template_engine |-> engine]))
         ELSE Raise(InternalServerException("Template engine was not initialized in app"))

\* the status code of a FileResponse that is given none: starlette's default
FileResponseStatusCode == IntOf(HTTP_200_OK)

\* lines 376-399: the response of a value that is a response or a StarliteType; the FileResponse
\* is passed no status code (line 381)
native_response(h, data, headers, media_type, engine) ==
    CASE data.tag = "Redirect" ->
            Built(ResponseOf("RedirectResponse", h.status_code, headers, NotPassed,
                             [url |-> data.path]))
      [] data.tag = "File" ->
            Built(ResponseOf("FileResponse", FileResponseStatusCode, headers, media_type,
                             [path |-> data.path, filename |-> data.filename]))
      [] data.tag = "Stream" ->
            Built(ResponseOf("StreamingResponse", h.status_code, headers, media_type,
                             [content |-> data.iterator]))
      [] data.tag = "Template" -> template_response(h, data, headers, engine)
      [] OTHER -> Built(data)

\* lines 400-411: the response of any other value, made by the resolved response class
data_response(h, data, headers, media_type, plugins, response_class) ==
    Built(ResponseOf(response_class.name, h.status_code, headers, media_type,
                     [content |-> plugin_converted(data, get_plugin_for_value(data, plugins))]))

Log(event, value) == [event |-> event, value |-> value]

\* the value of after_request(response): the hook is opaque, its result is named by hook and argument
HookResult(hook, response) == [tag |-> "hook result", hook |-> hook, argument |-> response]

HookError(hook) == [tag |-> "exception", type |-> "raised by hook", hook |-> hook]

\* faulty variant of runs_after_request: the hook is never run
runs_after_request_never(after_request) == FALSE

\* if after_request: (line 414)
runs_after_request(after_request) == Truthy(after_request)

\* to_response is called with a return value and the plugins (line 367); engine is the template
\* engine the application holds while the call runs
to_response_begin(data, plugins, engine) ==
    /\ auth.pc = "idle"
    /\ coercion.pc \in {"idle", "returned", "raised"}
    /\ coercion' = [pc |-> IF isawaitable(data) THEN "await data" ELSE "build",
                    data |-> data, plugins |-> plugins, engine |-> engine,
                    after_request |-> None, built |-> None, response |-> None, log |-> <<>>]
    /\ UNCHANGED <<tasks, layers, memo, signature_model, handler, auth, last, first>>

\* data = await data (line 370)
to_response_await_data ==
    /\ coercion.pc = "await data"
    /\ coercion' = [coercion EXCEPT !.pc = "build", !.data = coercion.data.value]
    /\ UNCHANGED <<tasks, layers, memo, signature_model, handler, auth, last, first>>

\* lines 371-411, which run without suspension: the after hook and the headers are resolved,
\* then the response is built; the response class is resolved only for a value of the last branch
to_response_build ==
    /\ coercion.pc = "build"
    /\ LET after == hook_outcome(layers, "after_request", resolved_after_request)
           resolved == headers_outcome(layers, resolved_headers)
           class == response_class_outcome(layers, resolved_response_class)
           media_type == media_type_value(handler.media_type)
           headers == header_values(resolved.cell)
           native == is_response_or_starlite_type(coercion.data)
           r == IF native
                THEN native_response(handler, coercion.data, headers, media_type, coercion.engine)
                ELSE data_response(handler, coercion.data, headers, media_type, coercion.plugins,
                                   class.cell)
       IN /\ resolved_after_request' = after.cell
          /\ resolved_headers' = resolved.cell
          /\ resolved_response_class' = IF native THEN resolved_response_class ELSE class.cell
          /\ IF r.error # None
             THEN /\ coercion' = [coercion EXCEPT !.pc = "raised", !.after_request = after.cell]
                  /\ last' = Raised("to_response", r.error)
             ELSE /\ coercion' = [coercion EXCEPT !.pc = "built", !.after_request = after.cell,
                                                  !.built = r.response, !.response = r.response,
                                                  !.log = Append(coercion.log, Log("built", r.response))]
                  /\ last' = last
    /\ UNCHANGED <<tasks, layers, resolved_guards, resolved_dependencies, resolved_before_request,
                   signature_model, handler, auth, first>>

\* return response (line 420)
returning(c) ==
    /\ coercion' = [c EXCEPT !.pc = "returned", !.log = Append(c.log, Log("returned", c.response))]
    /\ last' = Returned("to_response", c.response, FALSE, FALSE)

raising(c, error) ==
    /\ coercion' = [c EXCEPT !.pc = "raised", !.log = Append(c.log, Log("raised", error))]
    /\ last' = Raised("to_response", error)

\* lines 414-420: without a hook the response is returned; the hook, called with the response,
\* returns a value, returns an awaitable, or raises
to_response_after_request ==
    /\ coercion.pc = "built"
    /\ IF ~runs_after_request(coercion.after_request)
       THEN returning(coercion)
       ELSE LET hook == coercion.after_request
                result == HookResult(hook, coercion.response)
                called == [coercion EXCEPT
                              !.log = Append(coercion.log, Log("hook called", coercion.response))]
            IN \/ returning([called EXCEPT !.response = result])
               \/ /\ coercion' = [called EXCEPT !.pc = "await hook", !.response = Awaitable(result)]
                  /\ last' = last
               \/ raising(called, HookError(hook))
    /\ UNCHANGED <<tasks, layers, memo, signature_model, handler, auth, first>>

\* response = await response (line 418): the awaitable completes with a value or raises
to_response_await_hook ==
    /\ coercion.pc = "await hook"
    /\ LET awaited == [coercion EXCEPT
                          !.log = Append(coercion.log, Log("hook awaited", coercion.response))]
       IN \/ returning([awaited EXCEPT !.response = coercion.response.value])
          \/ raising(awaited, HookError(coercion.after_request))
    /\ UNCHANGED <<tasks, layers, memo, signature_model, handler, auth, first>>

(***************************************************************************)
(* The return values, plugins and handlers to_response runs on.            *)
(***************************************************************************)
\* a response the handler function built itself, with a status code and headers of its own
NativeResponse ==
    ResponseOf("Response", IntOf(404), Dict(<<(<<"own", Str("x")>>)>>), Str("text/plain"),
               [content |-> Plain("body")])

PlainReturnValues ==
    {Redirect("/a"), File("f.txt", "f"), Stream("chunks"), Template("t.html", "context"),
     NativeResponse, Plain("d"), Model("m1"), List(<<Model("m1"), Model("m2")>>), List(<<>>)}

ReturnValues == PlainReturnValues \cup {Awaitable(v) : v \in PlainReturnValues}

PluginLists == {List(<<>>), List(<<"plugin">>)}

TemplateEngines == {None, Ref("engine")}

\* registered http handlers as __init__ leaves them: GET with 200, POST with 201 (lines 223-229)
ResponseHandlers ==
    {[RegisteredHandler EXCEPT !.http_method = HttpMethod("GET"),
                               !.status_code = IntOf(HTTP_200_OK), !.media_type = "JSON"],
     [RegisteredHandler EXCEPT !.http_method = HttpMethod("POST"),
                               !.status_code = IntOf(HTTP_201_CREATED), !.media_type = "TEXT"]}

\* what a layer sets of the attributes to_response resolves
ResponseProfiles ==
    { NoAttributes,
      [NoAttributes EXCEPT !.response_headers = Dict(<<(<<"h1", "v1">>)>>),
                           !.after_request = Function("f1")],
      [NoAttributes EXCEPT !.response_headers = Dict(<<(<<"h2", "v2">>), (<<"h1", "v2">>)>>),
                           !.response_class = Class("R1"),
                           !.after_request = BoundMethod("f2")] }

InitResp ==
    /\ \E n \in 1..MaxDepth :
         \E ps \in [1..n -> ResponseProfiles] : layers = Chain(n, ps)
    /\ signature_model = None
    /\ handler \in ResponseHandlers
    /\ InitNode

NextResp ==
    \/ \E data \in ReturnValues, plugins \in PluginLists, engine \in TemplateEngines :
          to_response_begin(data, plugins, engine)
    \/ to_response_await_data
    \/ to_response_build
    \/ to_response_after_request
    \/ to_response_await_hook

SpecResp == InitResp /\ [][NextResp]_vars

(***************************************************************************)
(* resolve_response_class (lines 273-281) and the two hook resolvers      *)
(* (lines 296-313 and 315-332) statement by statement: several request     *)
(* tasks are inside the same resolver of the same node, and every read and *)
(* every write of the memo cell is a step of its own.                      *)
(***************************************************************************)
NumTasks == 2                 \* request tasks calling the resolver

Tasks == 1..NumTasks

Pending == [tag |-> "pending"]

AttributeError(name) == [tag |-> "exception", type |-> "AttributeError", name |-> name]

\* a task about to run the first statement of the resolver
Called == [pc |-> "test", read |-> Pending, result |-> Pending, error |-> None]

HookResolvers == {"resolve_before_request", "resolve_after_request"}

StepResolvers == {"resolve_response_class"} \cup HookResolvers

hook_attribute(op) == IF op = "resolve_before_request" THEN "before_request" ELSE "after_request"

\* self.resolved_response_class, self.resolved_before_request or self.resolved_after_request
memo_cell(op) ==
    CASE op = "resolve_response_class" -> resolved_response_class
      [] op = "resolve_before_request" -> resolved_before_request
      [] op = "resolve_after_request" -> resolved_after_request

\* an assignment to the memo cell of the resolver
memo_write(op, v) ==
    /\ resolved_response_class' = IF op = "resolve_response_class" THEN v ELSE resolved_response_class
    /\ resolved_before_request' = IF op = "resolve_before_request" THEN v ELSE resolved_before_request
    /\ resolved_after_request' = IF op = "resolve_after_request" THEN v ELSE resolved_after_request

memo_kept == UNCHANGED <<resolved_response_class, resolved_before_request, resolved_after_request>>

at(t, pc) == tasks.op \in StepResolvers /\ tasks.of[t].pc = pc

goto(t, pc) == tasks' = [tasks EXCEPT !.of[t].pc = pc]

\* a read of the memo cell by task t, which moves on to pc
reading(t, pc) == tasks' = [tasks EXCEPT !.of[t].pc = pc, !.of[t].read = memo_cell(tasks.op)]

\* a resolver leaves the rest of the node alone
rest_kept ==
    UNCHANGED <<coercion, layers, resolved_guards, resolved_dependencies, resolved_headers,
                signature_model, handler, auth, last, first>>

\* if self.resolved_... is _empty: (lines 275, 303 and 322)
test_unresolved(t) ==
    /\ at(t, "test")
    /\ reading(t, IF ~IsUnresolved(memo_cell(tasks.op)) THEN "return"
                  ELSE IF tasks.op = "resolve_response_class" THEN "default" ELSE "walk")
    /\ memo_kept
    /\ rest_kept

\* self.resolved_response_class = Response (line 276)
write_default(t) ==
    /\ at(t, "default")
    /\ memo_write(tasks.op, Response)
    /\ goto(t, "walk")
    /\ rest_kept

\* lines 277-280: the first response_class that is not None is written to the cell
walk_response_class(t) ==
    /\ at(t, "walk")
    /\ tasks.op = "resolve_response_class"
    /\ LET found == first_response_class(layers, ownership_layers(layers), None)
       IN IF found # None THEN memo_write(tasks.op, found) ELSE memo_kept
    /\ goto(t, "return")
    /\ rest_kept

\* lines 304-307 and 323-326: the first hook that is true is written to the cell
walk_hook(t) ==
    /\ at(t, "walk")
    /\ tasks.op \in HookResolvers
    /\ LET found == first_hook(layers, ownership_layers(layers), hook_attribute(tasks.op))
       IN IF found # _empty THEN memo_write(tasks.op, found) ELSE memo_kept
    /\ goto(t, "test again")
    /\ rest_kept

\* if self.resolved_... is _empty: (lines 308 and 327)
test_still_unresolved(t) ==
    /\ at(t, "test again")
    /\ reading(t, IF IsUnresolved(memo_cell(tasks.op)) THEN "none" ELSE "ismethod")
    /\ memo_kept
    /\ rest_kept

\* self.resolved_... = None (lines 309 and 328)
write_none(t) ==
    /\ at(t, "none")
    /\ memo_write(tasks.op, None)
    /\ goto(t, "return")
    /\ rest_kept

\* elif ismethod(self.resolved_...): (lines 310 and 329)
test_ismethod(t) ==
    /\ at(t, "ismethod")
    /\ reading(t, IF ismethod(memo_cell(tasks.op)) THEN "unbind" ELSE "return")
    /\ memo_kept
    /\ rest_kept

\* self.resolved_....__func__ (lines 312 and 331): only a bound method has the attribute
read_func(t) ==
    /\ at(t, "unbind")
    /\ LET cell == memo_cell(tasks.op)
       IN IF ismethod(cell)
          THEN tasks' = [tasks EXCEPT !.of[t].pc = "write func", !.of[t].read = cell,
                                      !.of[t].result = cell.func]
          ELSE tasks' = [tasks EXCEPT !.of[t].pc = "raised", !.of[t].read = cell,
                                      !.of[t].error = AttributeError("__func__")]
    /\ memo_kept
    /\ rest_kept

\* self.resolved_... = <the function just read> (lines 312 and 331)
write_func(t) ==
    /\ at(t, "write func")
    /\ memo_write(tasks.op, tasks.of[t].result)
    /\ tasks' = [tasks EXCEPT !.of[t].pc = "return", !.of[t].result = Pending]
    /\ rest_kept

\* return self.resolved_... (lines 281, 313, 332)
return_cell(t) ==
    /\ at(t, "return")
    /\ tasks' = [tasks EXCEPT !.of[t].pc = "returned", !.of[t].read = memo_cell(tasks.op),
                              !.of[t].result = memo_cell(tasks.op)]
    /\ memo_kept
    /\ rest_kept

\* every task has called the same resolver of the node
InitTasks ==
    /\ \E n \in 1..MaxDepth :
         \E ps \in [1..n -> LayerProfiles] : layers = Chain(n, ps)
    /\ signature_model = None
    /\ handler = RegisteredHandler
    /\ resolved_guards = _empty
    /\ resolved_dependencies = _empty
    /\ resolved_headers = _empty
    /\ resolved_response_class = _empty
    /\ resolved_before_request = _empty
    /\ resolved_after_request = _empty
    /\ auth = AuthIdle
    /\ last = NoCall
    /\ first = NoFirst
    /\ coercion = NoCoercion
    /\ \E op \in StepResolvers : tasks = [op |-> op, of |-> [t \in Tasks |-> Called]]

NextTasks ==
    \E t \in Tasks :
        \/ test_unresolved(t)
        \/ write_default(t)
        \/ walk_response_class(t)
        \/ walk_hook(t)
        \/ test_still_unresolved(t)
        \/ write_none(t)
        \/ test_ismethod(t)
        \/ read_func(t)
        \/ write_func(t)
        \/ return_cell(t)

SpecTasks == InitTasks /\ [][NextTasks]_vars

(***************************************************************************)
(* C1: for every ownership chain, resolve_guards returns the concatenation *)
(* of the layers' guard lists, root first and node last, each layer's      *)
(* guards in the order the layer declared them.                            *)
(***************************************************************************)
DeclaredGuards(layer) == IF layer.guards = None THEN <<>> ELSE layer.guards.items

RECURSIVE RootFirstDeclared(_, _)
RootFirstDeclared(L, chain) ==
    IF chain = <<>> THEN <<>>
    ELSE RootFirstDeclared(L, Tail(chain)) \o DeclaredGuards(L[Head(chain)])

\* C1: resolve_guards returns the layers' guard lists concatenated root first, each in declared order
C1_GuardsRootFirstInDeclaredOrder ==
    (last.op = "resolve_guards" /\ last.status = "returned")
        => last.value = List(RootFirstDeclared(layers, ownership_layers(layers)))

(***************************************************************************)
(* C2: authorize_connection invokes the resolved guards one at a time in   *)
(* resolved order; guard k + 1 starts only after guard k has returned and, *)
(* if its result was awaitable, after that result has completed; once a    *)
(* guard raises no later guard is invoked and that same error leaves       *)
(* authorize_connection.                                                   *)
(***************************************************************************)
Finished(e) == e.ev \in {"returned", "completed"}

C2_LogInOrder ==
    \A j \in 1..Len(auth.log) :
        LET e == auth.log[j] IN
        /\ e.k \in 1..Len(auth.guards)
        /\ e.guard = auth.guards[e.k]
        /\ e.ev = "invoked" =>
             /\ e.k = Cardinality({m \in 1..j : auth.log[m].ev = "invoked"})
             /\ j > 1 => (Finished(auth.log[j - 1]) /\ auth.log[j - 1].k = e.k - 1)
        /\ e.ev \in {"returned", "awaitable"} =>
             (j > 1 /\ auth.log[j - 1].ev = "invoked" /\ auth.log[j - 1].k = e.k)
        /\ e.ev = "completed" =>
             (j > 1 /\ auth.log[j - 1].ev = "awaitable" /\ auth.log[j - 1].k = e.k)
        /\ e.ev = "raised" =>
             /\ j = Len(auth.log)
             /\ j > 1 /\ auth.log[j - 1].ev \in {"invoked", "awaitable"} /\ auth.log[j - 1].k = e.k

C2_FailFast ==
    /\ auth.raised # None =>
         /\ auth.pc \in {"raised", "failed"}
         /\ auth.error = auth.raised
         /\ auth.log[Len(auth.log)] = Event("raised", auth.raised.k, auth.raised.guard)
    /\ auth.pc = "failed" => last = Raised("authorize_connection", auth.raised)
    /\ auth.pc = "done" =>
         /\ Cardinality({j \in 1..Len(auth.log) : auth.log[j].ev = "invoked"}) = Len(auth.guards)
         /\ Cardinality({j \in 1..Len(auth.log) : Finished(auth.log[j])}) = Len(auth.guards)

\* C2: guards run one at a time in resolved order, and the first error ends the call and leaves it unchanged
C2_GuardsSequentialFailFast ==
    /\ auth.pc # "idle" => auth.guards = resolved_guards.items
    /\ C2_LogInOrder
    /\ C2_FailFast

\* the second of at least three guards raised while awaited, after the first had completed
C2_Witness ==
    /\ auth.pc = "failed"
    /\ Len(auth.guards) >= 3
    /\ auth.error.k = 2
    /\ Len(auth.log) = 6
    /\ auth.log[3].ev = "completed"
    /\ auth.log[5].ev = "awaitable"

(***************************************************************************)
(* What the layers of the chain declare (read off the tree, not computed   *)
(* by the resolvers).                                                      *)
(***************************************************************************)
Declared(layer, attr) == IF layer[attr] = None THEN <<>> ELSE layer[attr].items

ChainIds(L) == DOMAIN L

DeclaredNames(L, attr) == UNION {Keys(Declared(L[i], attr)) : i \in ChainIds(L)}

\* the layer nearest to the node that declares name (layer 1 is the node, owners follow)
Nearest(L, attr, name) ==
    CHOOSE i \in ChainIds(L) :
        /\ name \in Keys(Declared(L[i], attr))
        /\ \A j \in ChainIds(L) : name \in Keys(Declared(L[j], attr)) => i <= j

NearestValue(L, attr, name) == Get(Declared(L[Nearest(L, attr, name)], attr), name)

LastReturned(op) == last.op = op /\ last.status = "returned"

(***************************************************************************)
(* C3: a successful resolve_dependencies maps every dependency name that   *)
(* some layer of the chain declares to the provider of the nearest layer   *)
(* declaring it, and holds no name that no layer declares.                 *)
(***************************************************************************)
\* C3: each declared name maps to the nearest declaring layer's provider, and no other name is present
C3_NearestProviderWins ==
    LastReturned("resolve_dependencies") =>
        /\ last.value.tag = "dict"
        /\ Keys(last.value.items) = DeclaredNames(layers, "dependencies")
        /\ \A name \in DeclaredNames(layers, "dependencies") :
              Get(last.value.items, name) = NearestValue(layers, "dependencies", name)
        /\ Len(last.value.items) = Cardinality(Keys(last.value.items))

\* the node and the root declare the same name with different providers, a middle layer another name
C3_Witness ==
    /\ LastReturned("resolve_dependencies")
    /\ Len(ownership_layers(layers)) = 3
    /\ layers[1].dependencies = Dict(<<(<<"a", "p1">>)>>)
    /\ layers[2].dependencies = None
    /\ layers[3].dependencies = Dict(<<(<<"b", "p2">>), (<<"a", "p2">>)>>)
    /\ last.value = Dict(<<(<<"a", "p1">>), (<<"b", "p2">>)>>)

(***************************************************************************)
(* C4 as stated: whenever two different names registered anywhere in the   *)
(* chain map to the same provider, resolve_dependencies (called with the   *)
(* signature model set) fails with a configuration error naming both keys. *)
(***************************************************************************)
RegisteredPairs(L) ==
    UNION {{Declared(L[i], "dependencies")[j] : j \in 1..Len(Declared(L[i], "dependencies"))}
           : i \in ChainIds(L)}

NamesConfigurationError(e, k1, k2) ==
    /\ e.type = "ImproperlyConfiguredException"
    /\ {e.key, e.dependency_key} = {k1, k2}

LastResolveWithModel == last.op = "resolve_dependencies" /\ last.model

\* C4 (as stated): any two registered names with one provider make resolve_dependencies fail naming both
C4_AnySharedProviderFails ==
    LastResolveWithModel =>
        \A x \in RegisteredPairs(layers), y \in RegisteredPairs(layers) :
            (x[1] # y[1] /\ x[2] = y[2]) =>
                (last.status = "raised" /\ NamesConfigurationError(last.error, x[1], y[1]))

(***************************************************************************)
(* C4 amended: whenever two different names map to the same provider in    *)
(* the declarations that take effect (for each name, that of the nearest   *)
(* layer declaring it), resolve_dependencies, called with the signature    *)
(* model set, fails with a configuration error naming two such keys.       *)
(***************************************************************************)
EffectiveClash(L, k1, k2) ==
    /\ k1 \in DeclaredNames(L, "dependencies")
    /\ k2 \in DeclaredNames(L, "dependencies")
    /\ k1 # k2
    /\ NearestValue(L, "dependencies", k1) = NearestValue(L, "dependencies", k2)

\* C4 (amended): two names whose effective providers are equal make resolve_dependencies fail naming two such keys
C4_EffectiveSharedProviderFails ==
    (LastResolveWithModel /\ \E k1, k2 \in DependencyKeys : EffectiveClash(layers, k1, k2)) =>
        /\ last.status = "raised"
        /\ last.error.type = "ImproperlyConfiguredException"
        /\ EffectiveClash(layers, last.error.key, last.error.dependency_key)

\* the clash is between a name of the node and a name of the root
C4_Witness ==
    /\ LastResolveWithModel
    /\ Len(ownership_layers(layers)) = 3
    /\ layers[1].dependencies = Dict(<<(<<"a", "p2">>)>>)
    /\ layers[3].dependencies = Dict(<<(<<"a", "p1">>), (<<"b", "p2">>)>>)
    /\ last.status = "raised"
    /\ last.error = ImproperlyConfigured("b", "a")

(***************************************************************************)
(* C9: resolve_response_headers returns a mapping whose keys are the union *)
(* of the header names declared by the layers of the chain, each mapped to *)
(* the header spec of the nearest layer declaring that name.               *)
(***************************************************************************)
\* C9: the resolved headers are the union of the declared names, each from the nearest declaring layer
C9_HeadersUnionNearestWins ==
    LastReturned("resolve_response_headers") =>
        /\ last.value.tag = "dict"
        /\ Keys(last.value.items) = DeclaredNames(layers, "response_headers")
        /\ \A name \in DeclaredNames(layers, "response_headers") :
              Get(last.value.items, name) = NearestValue(layers, "response_headers", name)
        /\ Len(last.value.items) = Cardinality(Keys(last.value.items))

\* the node overrides a name of the root, and the root fills in a name the node lacks
C9_Witness ==
    /\ LastReturned("resolve_response_headers")
    /\ Len(ownership_layers(layers)) = 3
    /\ layers[1].response_headers = Dict(<<(<<"h1", "v1">>)>>)
    /\ layers[2].response_headers = Dict(<<>>)
    /\ layers[3].response_headers = Dict(<<(<<"h2", "v1">>), (<<"h1", "v2">>)>>)
    /\ last.value = Dict(<<(<<"h1", "v1">>), (<<"h2", "v1">>)>>)

(***************************************************************************)
(* C10 as stated: resolve_response_class, resolve_before_request and       *)
(* resolve_after_request each return the value set by the nearest layer    *)
(* that sets a non-empty value; when no layer sets one, the class resolver *)
(* returns Response and the hook resolvers return None.                    *)
(***************************************************************************)
SetsValue(L, attr, i) == L[i][attr] # None

NearestSetOr(L, attr, default) ==
    IF \E i \in ChainIds(L) : SetsValue(L, attr, i)
    THEN LET i == CHOOSE k \in ChainIds(L) :
                    /\ SetsValue(L, attr, k)
                    /\ \A j \in ChainIds(L) : SetsValue(L, attr, j) => k <= j
         IN L[i][attr]
    ELSE default

\* C10 (as stated): each resolver returns the nearest set value itself, or its default
C10_NearestSetValueReturned ==
    /\ LastReturned("resolve_response_class") =>
          last.value = NearestSetOr(layers, "response_class", Response)
    /\ LastReturned("resolve_before_request") =>
          last.value = NearestSetOr(layers, "before_request", None)
    /\ LastReturned("resolve_after_request") =>
          last.value = NearestSetOr(layers, "after_request", None)

(***************************************************************************)
(* C10 amended: as stated, except that when the nearest non-empty hook is  *)
(* a bound method the hook resolvers return its underlying function        *)
(* (__func__), not the bound method itself.                                *)
(***************************************************************************)
Underlying(v) == IF v.tag = "method" THEN v.func ELSE v

\* C10 (amended): each resolver returns the nearest set value, a bound method as its underlying function
C10_NearestSetValueUnbound ==
    /\ LastReturned("resolve_response_class") =>
          last.value = NearestSetOr(layers, "response_class", Response)
    /\ LastReturned("resolve_before_request") =>
          last.value = Underlying(NearestSetOr(layers, "before_request", None))
    /\ LastReturned("resolve_after_request") =>
          last.value = Underlying(NearestSetOr(layers, "after_request", None))

\* the node sets no hook, its owner a bound method, the root a plain function
C10_Witness ==
    /\ LastReturned("resolve_before_request")
    /\ Len(ownership_layers(layers)) = 3
    /\ layers[1].before_request = None
    /\ layers[2].before_request = BoundMethod("f2")
    /\ layers[3].before_request = Function("f1")
    /\ last.value = Function("f2")
    /\ resolved_response_class = Class("Response")
    /\ resolved_after_request = None

(***************************************************************************)
(* C5: for each of the six resolvers, a second successful call on the same *)
(* node returns the value the first call returned, without walking the     *)
(* ownership chain again; also when that value is an empty list, an empty  *)
(* mapping or None, since the memo cell then holds it and not _empty.      *)
(***************************************************************************)
Resolvers ==
    {"resolve_guards", "resolve_dependencies", "resolve_response_headers",
     "resolve_response_class", "resolve_before_request", "resolve_after_request"}

MemoCell(op) ==
    CASE op = "resolve_guards" -> resolved_guards
      [] op = "resolve_dependencies" -> resolved_dependencies
      [] op = "resolve_response_headers" -> resolved_headers
      [] op = "resolve_response_class" -> resolved_response_class
      [] op = "resolve_before_request" -> resolved_before_request
      [] op = "resolve_after_request" -> resolved_after_request

\* C5: a repeated successful call returns the first call's value and does not walk the chain
C5_SecondCallReturnsMemo ==
    /\ (last.op \in Resolvers /\ last.status = "returned" /\ last.repeat) =>
          /\ last.value = first[last.op]
          /\ ~last.walked
    /\ \A op \in Resolvers :
          first[op] # _empty => (MemoCell(op) = first[op] /\ MemoCell(op) # _empty)

\* second calls that returned an empty list, an empty mapping and None
C5_Witness ==
    /\ LastReturned("resolve_before_request")
    /\ last.repeat
    /\ last.value = None
    /\ first.resolve_guards = List(<<>>)
    /\ first.resolve_dependencies = Dict(<<>>)
    /\ first.resolve_response_headers = Dict(<<>>)
    /\ first.resolve_after_request = None
    /\ first.resolve_response_class = Response

(***************************************************************************)
(* What was asked of the constructor and of the registration (read off the *)
(* arguments, not computed by the handler).                                *)
(***************************************************************************)
GivenMethodNames(given) ==
    IF given.tag = "list" THEN {given.items[i].value : i \in 1..Len(given.items)}
    ELSE {given.value}

\* one method was given: as a scalar, or as a list of exactly one element
GivenOneMethod(given) == given.tag # "list" \/ Len(given.items) = 1

TheMethodName(given) == CHOOSE n \in GivenMethodNames(given) : TRUE

DenotesRedirect(annotation) == annotation \in {Class("Redirect"), Class("RedirectSubclass")}

HttpCallDone == handler.kind = "http" /\ handler.phase \in {"registered", "rejected"}

WebsocketCallDone == handler.kind = "websocket" /\ handler.phase \in {"registered", "rejected"}

(***************************************************************************)
(* C6: registering a function on an HTTP handler fails if and only if the  *)
(* function has no return annotation, or the annotation denotes a redirect *)
(* and the node's status code is none of 301, 302, 303, 307, 308, or it    *)
(* has a parameter socket, or it has a parameter data and GET is among the *)
(* node's methods (given as a scalar or inside a list).                    *)
(***************************************************************************)
\* C6: HTTP registration fails exactly in the four listed cases
C6_HttpRegistrationFailsIff ==
    HttpCallDone =>
        LET fn == handler.fn IN
        /\ (handler.phase = "rejected") <=>
              \/ fn.return_annotation = SignatureEmpty
              \/ /\ DenotesRedirect(fn.return_annotation)
                 /\ handler.status_code.value \notin {301, 302, 303, 307, 308}
              \/ "socket" \in fn.parameters
              \/ "data" \in fn.parameters /\ "GET" \in GivenMethodNames(handler.args.http_method)
        /\ (handler.phase = "rejected") <=> (last.op = "__call__" /\ last.status = "raised")
        /\ (handler.phase = "registered") <=> (last.op = "__call__" /\ last.status = "returned")

\* GET given inside a list of one, and data the function's only flaw
C6_Witness ==
    /\ HttpCallDone
    /\ handler.args.http_method = List(<<HttpMethod("GET")>>)
    /\ handler.fn = Signature(Class("dict"), {"data", "request"})
    /\ handler.phase = "rejected"
    /\ last.error.type = "ImproperlyConfiguredException"

(***************************************************************************)
(* C7: registering a function on a WebSocket handler succeeds if and only  *)
(* if its return annotation is exactly None, it has a parameter socket and *)
(* it has neither a parameter request nor a parameter data; otherwise the  *)
(* registration itself fails with a configuration error.                   *)
(***************************************************************************)
\* C7: WebSocket registration succeeds exactly for None, socket, no request, no data
C7_WebsocketRegistrationSucceedsIff ==
    WebsocketCallDone =>
        LET fn == handler.fn IN
        /\ (handler.phase = "registered") <=>
              /\ fn.return_annotation = None
              /\ "socket" \in fn.parameters
              /\ "request" \notin fn.parameters
              /\ "data" \notin fn.parameters
        /\ (handler.phase = "registered") <=> (last.op = "__call__" /\ last.status = "returned")
        /\ (handler.phase = "rejected") <=>
              /\ last.op = "__call__"
              /\ last.status = "raised"
              /\ last.error.type = "ImproperlyConfiguredException"

\* a function whose only flaw is the parameter request
C7_Witness ==
    /\ WebsocketCallDone
    /\ handler.fn = Signature(None, {"socket", "request"})
    /\ handler.phase = "rejected"

(***************************************************************************)
(* C8 as stated: the status code is the given one when one is given, else  *)
(* 201 for POST, 204 for DELETE, 200 for GET, PUT and PATCH; a method      *)
(* given as a list of one element yields the http_method value and the     *)
(* default status code of that method given as a scalar.                   *)
(***************************************************************************)
HttpConstructed == handler.kind = "http" /\ handler.phase \in {"constructed", "registered", "rejected"}

DefaultStatusCode(n) ==
    CASE n = "POST" -> IntOf(201)
      [] n = "DELETE" -> IntOf(204)
      [] OTHER -> IntOf(200)

\* the http_method the node holds is the one method given, as one value and not as a list
HoldsTheOneMethod ==
    GivenOneMethod(handler.args.http_method) =>
        /\ handler.http_method.tag # "list"
        /\ handler.http_method.value = TheMethodName(handler.args.http_method)

\* C8 (as stated): the status code is the given one whenever one is given, else the method's default
C8_StatusCodeGivenOrDefault ==
    HttpConstructed =>
        /\ handler.args.status_code # None => handler.status_code = handler.args.status_code
        /\ (handler.args.status_code = None /\ GivenOneMethod(handler.args.http_method)) =>
              handler.status_code = DefaultStatusCode(TheMethodName(handler.args.http_method))
        /\ HoldsTheOneMethod

(***************************************************************************)
(* C8 amended: the status code is the given one when a status code other   *)
(* than 0 is given; when none or 0 is given it is 201 for POST, 204 for    *)
(* DELETE, 200 for GET, PUT and PATCH; a list of one method behaves as the *)
(* scalar.                                                                 *)
(***************************************************************************)
StatusCodeGiven == handler.args.status_code \notin {None, IntOf(0)}

\* C8 (amended): the status code is the given one when it is not 0, else the method's default
C8_NonZeroStatusCodeGivenOrDefault ==
    HttpConstructed =>
        /\ StatusCodeGiven => handler.status_code = handler.args.status_code
        /\ (~StatusCodeGiven /\ GivenOneMethod(handler.args.http_method)) =>
              handler.status_code = DefaultStatusCode(TheMethodName(handler.args.http_method))
        /\ HoldsTheOneMethod

\* POST given as a list of one enum member, no status code
C8_Witness ==
    /\ HttpConstructed
    /\ handler.args.http_method = List(<<HttpMethod("POST")>>)
    /\ handler.args.status_code = None
    /\ handler.status_code = IntOf(201)
    /\ handler.http_method = HttpMethod("POST")

(***************************************************************************)
(* C11: to_response on a template value returns a template response built *)
(* with the application's template engine, the value's template name and   *)
(* its context when an engine is configured, and fails with an internal    *)
(* server error, returning no response, when none is configured.           *)
(***************************************************************************)
AfterBuild == coercion.pc \in {"built", "await hook", "returned", "raised"}

\* C11: a template value gives a template response with an engine, an internal server error without
C11_TemplateRenderedOrServerError ==
    (AfterBuild /\ coercion.data.tag = "Template") =>
        IF Truthy(coercion.engine)
        THEN /\ coercion.built # None
             /\ coercion.built.class = "TemplateResponse"
             /\ coercion.built.body = [template_name |-> coercion.data.name,
                                       context |-> coercion.data.context,
                                       template_engine |-> coercion.engine]
        ELSE /\ coercion.built = None
             /\ coercion.pc = "raised"
             /\ last.op = "to_response" /\ last.status = "raised"
             /\ last.error.type = "InternalServerException"

(***************************************************************************)
(* C12: the response to_response makes of a redirect, file, stream or      *)
(* template value (with an engine) and of plain or plugin-converted data   *)
(* carries the node's status code and exactly the node's resolved response *)
(* headers; a redirect response's URL is the value's path.                 *)
(***************************************************************************)
ConvertedKinds == {"Redirect", "File", "Stream", "Template", "Plain", "Model", "list"}

\* the resolved response headers as the response carries them: each declared name with its nearest value
CarriesResolvedHeaders(headers) ==
    /\ Keys(headers.items) = DeclaredNames(layers, "response_headers")
    /\ Len(headers.items) = Cardinality(DeclaredNames(layers, "response_headers"))
    /\ \A name \in DeclaredNames(layers, "response_headers") :
          Get(headers.items, name) = header_value(NearestValue(layers, "response_headers", name))

\* C12: every converted value's response has the node's status code and resolved headers
C12_StatusAndHeadersApplied ==
    (/\ AfterBuild
     /\ coercion.data.tag \in ConvertedKinds
     /\ coercion.data.tag = "Template" => Truthy(coercion.engine)) =>
        /\ coercion.built # None
        /\ coercion.built.status_code = handler.status_code
        /\ CarriesResolvedHeaders(coercion.built.headers)
        /\ coercion.data.tag = "Redirect" => coercion.built.body.url = coercion.data.path

(***************************************************************************)
(* C13: a resolved after hook is invoked exactly once, after the response  *)
(* is built and with that response as its argument; an awaitable result is *)
(* awaited and to_response returns the hook's final result.  Without an    *)
(* after hook to_response returns the built response unchanged.            *)
(***************************************************************************)
Events(name) == {i \in 1..Len(coercion.log) : coercion.log[i].event = name}

ResolvedAfterHook == Underlying(NearestSetOr(layers, "after_request", None))

\* C13: the hook runs once on the built response and its final result is returned; else the built one
C13_AfterHookOnceOnBuiltResponse ==
    /\ \A i \in Events("hook called") :
          /\ Truthy(ResolvedAfterHook)
          /\ coercion.log[i].value = coercion.built
          /\ \E j \in Events("built") : j < i /\ coercion.log[j].value = coercion.built
    /\ Cardinality(Events("hook called")) <= 1
    /\ \A i \in Events("hook awaited") : \E j \in Events("hook called") : j < i
    /\ coercion.pc = "returned" =>
          /\ last = Returned("to_response", coercion.response, FALSE, FALSE)
          /\ ~isawaitable(last.value)
          /\ \A i \in Events("returned") : \A j \in 1..Len(coercion.log) : j <= i
          /\ IF Truthy(ResolvedAfterHook)
             THEN /\ Cardinality(Events("hook called")) = 1
                  /\ last.value = HookResult(ResolvedAfterHook, coercion.built)
             ELSE /\ Events("hook called") = {}
                  /\ last.value = coercion.built

\* a file value on a tree whose nearest after hook is a bound method, the hook's result awaited
C13_Witness ==
    /\ coercion.pc = "returned"
    /\ coercion.data.tag = "File"
    /\ Events("hook awaited") # {}
    /\ layers[1].after_request = None
    /\ NearestSetOr(layers, "after_request", None) = BoundMethod("f2")
    /\ last.value = HookResult(Function("f2"), coercion.built)

(***************************************************************************)
(* C14: when several request tasks run the same resolver of a node with    *)
(* their reads and writes of the memo cell interleaved in any order, every *)
(* task returns the value one sequential resolution returns, and the memo  *)
(* cell only ever holds, and a task only ever reads in it, the unresolved  *)
(* sentinel or that final value.                                           *)
(***************************************************************************)
\* what one call of the resolver, run alone on the unresolved node, returns
SequentialValue(op) ==
    IF op = "resolve_response_class" THEN response_class_outcome(layers, _empty).cell
    ELSE hook_outcome(layers, hook_attribute(op), _empty).cell

\* C14: interleaved tasks return the sequential value and the cell goes from unresolved to final only
C14_InterleavedResolutionSequential ==
    tasks.op \in StepResolvers =>
        /\ memo_cell(tasks.op) \in {_empty, SequentialValue(tasks.op)}
        /\ \A t \in Tasks :
              /\ tasks.of[t].read \in {Pending, _empty, SequentialValue(tasks.op)}
              /\ tasks.of[t].pc # "raised"
              /\ tasks.of[t].pc = "returned" => tasks.of[t].result = SequentialValue(tasks.op)

\* a task has returned a value that is not the one a sequential resolution returns
C14_WrongValueReturned ==
    /\ tasks.op \in StepResolvers
    /\ \E t \in Tasks :
          tasks.of[t].pc = "returned" /\ tasks.of[t].result # SequentialValue(tasks.op)

\* a task has failed on the cell another task had already replaced by the function
C14_TaskRaised == tasks.op \in StepResolvers /\ \E t \in Tasks : tasks.of[t].pc = "raised"

(***************************************************************************)
(* C15: whenever the resolved_dependencies memo cell is resolved, no two    *)
(* different names of the stored mapping have equal providers.             *)
(***************************************************************************)
InjectiveOnProviders(d) ==
    \A i, j \in 1..Len(d) : i # j => (d[i][1] # d[j][1] /\ d[i][2] # d[j][2])

\* C15: a stored dependency mapping is injective on providers
C15_ResolvedDependenciesInjective ==
    ~IsUnresolved(resolved_dependencies) =>
        /\ resolved_dependencies.tag = "dict"
        /\ InjectiveOnProviders(resolved_dependencies.items)

\* two names are stored, while the root declares both names with one provider
C15_Witness ==
    /\ Len(ownership_layers(layers)) = 2
    /\ layers[1].dependencies = Dict(<<(<<"a", "p2">>)>>)
    /\ layers[2].dependencies = Dict(<<(<<"b", "p1">>), (<<"a", "p1">>)>>)
    /\ resolved_dependencies = Dict(<<(<<"a", "p2">>), (<<"b", "p1">>)>>)

(***************************************************************************)
(* C16: a failing resolve_dependencies (no signature model, or a provider  *)
(* rejected by the uniqueness check) leaves the memo cell unresolved and   *)
(* every other field of the node as it was, and a later call on the same   *)
(* node fails with the same error.                                         *)
(***************************************************************************)
LastResolveFailed == last.op = "resolve_dependencies" /\ last.status = "raised"

\* the step is a call of resolve_dependencies that raises
FailingResolve == last' # last /\ last'.op = "resolve_dependencies" /\ last'.status = "raised"

\* what the next call of resolve_dependencies does on the node as it is
NextResolve == dependencies_outcome(layers, signature_model, resolved_dependencies)

\* C16: a failed resolve_dependencies stores nothing, changes no field, and fails the same way again
C16_FailedResolveChangesNothing ==
    /\ [](LastResolveFailed =>
            /\ IsUnresolved(resolved_dependencies)
            /\ (Truthy(signature_model) = last.model) =>
                  /\ NextResolve.error = last.error
                  /\ IsUnresolved(NextResolve.cell))
    /\ [][FailingResolve =>
            /\ IsUnresolved(resolved_dependencies')
            /\ UNCHANGED <<layers, resolved_guards, resolved_headers, resolved_response_class,
                           resolved_before_request, resolved_after_request, signature_model,
                           handler, auth, first, coercion, tasks>>]_vars

\* the node declares two names with one provider: the call with the signature model set has raised
C16_Witness ==
    /\ LastResolveFailed
    /\ last.model
    /\ Len(ownership_layers(layers)) = 1
    /\ layers[1].dependencies = Dict(<<(<<"a", "p1">>), (<<"b", "p1">>)>>)
    /\ last.error = ImproperlyConfigured("b", "a")
    /\ IsUnresolved(resolved_dependencies)

====
